---- MODULE Spec2Model ----
(***************************************************************************)
(* Model of the Zoomer Stream Deck plugin's toggle controller.             *)
(*                                                                         *)
(* ZoomToggleBase (zoom-toggle-base.ts) is one SingletonAction instance    *)
(* whose handlers are async functions running on the Node.js event loop:   *)
(* a handler runs without interruption until it awaits a spawned process,  *)
(* a timer or a display call, and any other callback may run while it is   *)
(* suspended.  Every await of the source is a program counter value of a   *)
(* task; every step below is the synchronous code between two awaits.      *)
(* Durations are abstracted: a timer that is armed may fire at any later   *)
(* moment and a spawned process may return at any later moment.            *)
(***************************************************************************)
EXTENDS Integers, Sequences, FiniteSets, Bags, TLC

\* ---- bounds of the model ------------------------------------------------
MaxTasks == 2       \* handlers / callbacks suspended at the same time
MaxPending == 2     \* one-shot verification timers pending at the same time
MaxTimers == 2      \* distinct interval timer handles
MaxOut == 2         \* 'data' events of one osascript run
MaxAttempts == 4    \* the largest maxRetryAttempts a configuration holds
MaxButtons == 2     \* buttons of the same action on the device
MaxDelay == 2       \* the largest retryDelay, besides the shipped one

\* ---- configuration (ZoomToggleBase.config) -------------------------------
maxRetryAttempts == 3
retryDelay == 200
DefaultConfig == [maxRetryAttempts |-> maxRetryAttempts, retryDelay |-> retryDelay]

\* ---- display strings ------------------------------------------------------
TitleNone == ""
TitleNotRunning == "Zoom\nNot Running"
TitleNotInMeeting == "Not in\nMeeting"
TitleError == "Error"
TitleMeeting == "Zoom\nMeeting"

VARIABLES
    zoom,               \* the external resource: "absent", "idle" (running, no meeting), "muted", "unmuted"
    visible,            \* the host has shown the button (onWillAppear .. onWillDisappear)
    isUpdating,         \* ZoomToggleBase.isUpdating
    stateCheckInterval, \* ZoomToggleBase.stateCheckInterval: a timer handle, 0 for undefined
    liveIntervals,      \* interval timers of the event loop that were set and not cleared
    pendingVerify,      \* number of setTimeout verification callbacks not yet fired
    button,             \* state index shown on the key (action.setState)
    title,              \* title shown on the key (action.setTitle)
    tasks,              \* the bag of suspended handlers and callbacks
    lastKnownState,     \* ZoomVideoToggle.lastKnownState of the stand-alone video toggle
    phase,              \* "free": the user and Zoom do anything and a probe may fail;
                        \* "settled": the action stays shown, Zoom stays in its meeting,
                        \* the user is done and the probes answer
    monitor,            \* the last call of ZoomMonitor and what it returned
    config,             \* ZoomToggleBase.config: maxRetryAttempts and retryDelay
    shown,              \* the buttons of this action the host has shown, when there are several
    timerAction         \* the action the callback of the live interval timer refreshes, 0 for none

vars == <<zoom, visible, isUpdating, stateCheckInterval, liveIntervals,
          pendingVerify, button, title, tasks, lastKnownState, phase, monitor,
          config, shown, timerAction>>

Handles == 1..MaxTimers
Buttons == 1..MaxButtons
ZoomValues == {"absent", "idle", "muted", "unmuted"}
VideoZoomValues == {"absent", "idle", "video_on", "video_off"}
MeetingValues == {"muted", "unmuted", "video_on", "video_off"}

\* A task is one invocation of a handler or timer callback.  attempt is
\* executeToggleAction's local, detected is updateState's detectedState and
\* newState is the local of the stand-alone video toggle's onKeyDown.
\* The other fields record what the invocation has seen and called so far:
\* absent (its isZoomRunning check returned false), nProbe (calls of
\* isZoomRunning and isInMeeting), nDetect (calls of detectState), nExec
\* (attempts of the toggle script), nFail (attempts that were rejected),
\* delays (the arguments of its delay() calls) and error (what the catch
\* block of onKeyDown caught: n for the rejection of attempt n, -1 for the
\* Error of validateKeyboardShortcut, 0 for nothing).
Idle ==
    [kind |-> "idle", pc |-> "done", attempt |-> 0, detected |-> "none",
     newState |-> "none",
     delays |-> <<>>, absent |-> FALSE, nProbe |-> 0, nDetect |-> 0,
     nExec |-> 0, nFail |-> 0, error |-> 0, action |-> 0]

\* the suspended invocations, and the bag after one is started, resumed, ended
Running == BagToSet(tasks)
CanStart == BagCardinality(tasks) < MaxTasks
Start(new) == tasks (+) SetToBag({new})
Resume(e, new) == (tasks (-) SetToBag({e})) (+) SetToBag({new})
End(e) == tasks (-) SetToBag({e})

\* no call of ZoomMonitor was made yet
NoCall ==
    [call |-> "none", exit |-> "none", stdout |-> <<>>,
     prev |-> [audio |-> "unknown", video |-> "unknown"],
     zoomState |-> "unknown", confidence |-> "low"]

\* ---- outcomes of the external calls ---------------------------------------
\* a probe may fail (spawn error, non-zero exit, unreadable window) except in
\* the phase in which the probes are taken to answer
ProbeMayFail == phase # "settled"

\* isZoomRunning: pgrep finds the process, or fails and the catch returns false
isZoomRunning ==
    IF zoom # "absent" THEN (IF ProbeMayFail THEN {TRUE, FALSE} ELSE {TRUE}) ELSE {FALSE}

\* isInMeeting: the script answers "true", or anything else / failure gives false
isInMeeting ==
    IF zoom \in MeetingValues THEN (IF ProbeMayFail THEN {TRUE, FALSE} ELSE {TRUE}) ELSE {FALSE}

\* detectState: ZoomMonitor returns the state it reads or 'unknown', never throws
detectState ==
    IF zoom \in MeetingValues
    THEN (IF ProbeMayFail THEN {zoom, "unknown"} ELSE {zoom})
    ELSE {"unknown"}

\* executeAppleScript of the toggle script: exit code 0 or a rejection
executeAppleScript == {TRUE, FALSE}

\* validateKeyboardShortcut: returns the shortcut, or throws when the
\* configured value is not a string
validateKeyboardShortcut == {TRUE, FALSE}

\* what a delivered toggle keystroke does to the resource
Toggled(z) ==
    IF z = "muted" THEN "unmuted"
    ELSE IF z = "unmuted" THEN "muted"
    ELSE IF z = "video_on" THEN "video_off"
    ELSE IF z = "video_off" THEN "video_on"
    ELSE z

\* ---- synchronous helpers ---------------------------------------------------
\* setButtonState with the two state indexes exchanged
setButtonState_swapped(state, current) ==
    IF state = "muted" THEN 1
    ELSE IF state = "unmuted" THEN 0
    ELSE current

\* ZoomMuteToggle.setButtonState: the state index shown after the call
setButtonState(state, current) ==
    IF state = "muted" THEN 0
    ELSE IF state = "unmuted" THEN 1
    ELSE current

\* a video setButtonState that shows state 1 for every other string
setVideoButtonState_default(state, current) ==
    IF state = "video_off" THEN 0 ELSE 1

\* ZoomVideoToggle.setButtonState of the toggle that extends ZoomToggleBase
setVideoButtonState(state, current) ==
    IF state = "video_off" THEN 0
    ELSE IF state = "video_on" THEN 1
    ELSE current

\* cleanup(): the interval timers left alive
cleanup(live, handle) == IF handle # 0 THEN live \ {handle} ELSE live

\* a handle setInterval has not handed out to a live timer
NewHandle(live) == CHOOSE h \in Handles \ live : \A g \in Handles \ live : h <= g

\* a startPeriodicStateCheck that calls setInterval without cleanup first
startPeriodicStateCheck_noCleanup ==
    /\ Handles \ liveIntervals # {}
    /\ liveIntervals' = liveIntervals \cup {NewHandle(liveIntervals)}
    /\ stateCheckInterval' = NewHandle(liveIntervals)

\* startPeriodicStateCheck(): cleanup, then setInterval
startPeriodicStateCheck ==
    LET live == cleanup(liveIntervals, stateCheckInterval) IN
    /\ Handles \ live # {}
    /\ liveIntervals' = live \cup {NewHandle(live)}
    /\ stateCheckInterval' = NewHandle(live)

\* a backoff that doubles: retryDelay, 2 retryDelay, 4 retryDelay, ...
backoff_exponential(attempt) == config.retryDelay * 2 ^ (attempt - 1)

\* a backoff that does not grow with the attempt number
backoff_constant(attempt) == config.retryDelay

\* the delay awaited after the attempt-th failed attempt
backoff(attempt) == config.retryDelay * attempt

Init ==
    /\ zoom \in ZoomValues
    /\ visible = FALSE
    /\ isUpdating = FALSE
    /\ stateCheckInterval = 0
    /\ liveIntervals = {}
    /\ pendingVerify = 0
    /\ button = 0
    /\ title = TitleNone
    /\ tasks = EmptyBag
    /\ lastKnownState = "unknown"
    /\ phase = "free"
    /\ monitor = NoCall
    /\ config = DefaultConfig
    /\ shown = {}
    /\ timerAction = 0

\* ---- the environment -------------------------------------------------------
\* Zoom is started or quit, a meeting starts or ends, the user mutes in Zoom
EnvChange ==
    /\ zoom' \in ZoomValues \ {zoom}
    /\ UNCHANGED <<visible, isUpdating, stateCheckInterval, liveIntervals,
                   pendingVerify, button, title, tasks>>
    /\ UNCHANGED <<lastKnownState, phase, monitor, config, shown, timerAction>>


\* ---- updateState -----------------------------------------------------------
\* A task that passed the isUpdating check of updateState and has not yet
\* run its finally block
InUpdate(e) ==
    e.pc \in {"u_running", "u_meeting", "u_detect", "u_setstate",
                     "u_cleartitle", "u_title", "u_errtitle"}

\* updateState entered with isUpdating false: set the flag, call isZoomRunning
updateStateEnter(e, kind) ==
    /\ isUpdating' = TRUE
    /\ tasks' = Resume(e, [e EXCEPT !.kind = kind, !.pc = "u_running", !.nProbe = @ + 1])

\* updateState whose caller arms no timer after 'Zoom Not Running'
updateStateReturn_skipWhenAbsent(e) ==
    /\ isUpdating' = FALSE
    /\ tasks' = End(e)
    /\ IF e.kind \in {"appear", "verify"} /\ ~e.absent
       THEN startPeriodicStateCheck
       ELSE UNCHANGED <<stateCheckInterval, liveIntervals>>

\* the finally block of updateState, then the caller's continuation:
\* onWillAppear and the verification callback call startPeriodicStateCheck,
\* the interval callback just ends
updateStateReturn(e) ==
    /\ isUpdating' = FALSE
    /\ tasks' = End(e)
    /\ IF e.kind \in {"appear", "verify"}
       THEN startPeriodicStateCheck
       ELSE UNCHANGED <<stateCheckInterval, liveIntervals>>

\* updateState without the return after 'Zoom Not Running'
UpdateRunning_noReturn(e) ==
    /\ e.pc = "u_running"
    /\ \E r \in isZoomRunning :
         /\ title' = IF r THEN title ELSE TitleNotRunning
         /\ tasks' = Resume(e, [e EXCEPT !.pc = "u_meeting", !.absent = ~r, !.nProbe = @ + 1])
    /\ UNCHANGED <<zoom, visible, isUpdating, stateCheckInterval, liveIntervals,
                   pendingVerify, button>>
    /\ UNCHANGED <<lastKnownState, phase, monitor, config, shown, timerAction>>

\* isZoomRunning returned inside updateState
UpdateRunning(e) ==
    /\ e.pc = "u_running"
    /\ \E r \in isZoomRunning :
         IF ~r
         THEN /\ title' = TitleNotRunning
              /\ tasks' = Resume(e, [e EXCEPT !.pc = "u_title", !.absent = TRUE])
         ELSE /\ title' = title
              /\ tasks' = Resume(e, [e EXCEPT !.pc = "u_meeting", !.nProbe = @ + 1])
    /\ UNCHANGED <<zoom, visible, isUpdating, stateCheckInterval, liveIntervals,
                   pendingVerify, button>>
    /\ UNCHANGED <<lastKnownState, phase, monitor, config, shown, timerAction>>

\* an updateState that goes on to detectState after 'Not in Meeting'
UpdateMeeting_noReturn(e) ==
    /\ e.pc = "u_meeting"
    /\ \E r \in isInMeeting :
         /\ title' = IF r THEN title ELSE TitleNotInMeeting
         /\ tasks' = Resume(e, [e EXCEPT !.pc = "u_detect", !.nDetect = @ + 1])
    /\ UNCHANGED <<zoom, visible, isUpdating, stateCheckInterval, liveIntervals,
                   pendingVerify, button>>
    /\ UNCHANGED <<lastKnownState, phase, monitor, config, shown, timerAction>>

\* an updateState that shows Error when the meeting probe says no
UpdateMeeting_showsError(e) ==
    /\ e.pc = "u_meeting"
    /\ \E r \in isInMeeting :
         IF ~r
         THEN /\ title' = TitleError
              /\ tasks' = Resume(e, [e EXCEPT !.pc = "u_title"])
         ELSE /\ title' = title
              /\ tasks' = Resume(e, [e EXCEPT !.pc = "u_detect", !.nDetect = @ + 1])
    /\ UNCHANGED <<zoom, visible, isUpdating, stateCheckInterval, liveIntervals,
                   pendingVerify, button>>
    /\ UNCHANGED <<lastKnownState, phase, monitor, config, shown, timerAction>>

\* isInMeeting returned inside updateState
UpdateMeeting(e) ==
    /\ e.pc = "u_meeting"
    /\ \E r \in isInMeeting :
         IF ~r
         THEN /\ title' = TitleNotInMeeting
              /\ tasks' = Resume(e, [e EXCEPT !.pc = "u_title"])
         ELSE /\ title' = title
              /\ tasks' = Resume(e, [e EXCEPT !.pc = "u_detect", !.nDetect = @ + 1])
    /\ UNCHANGED <<zoom, visible, isUpdating, stateCheckInterval, liveIntervals,
                   pendingVerify, button>>
    /\ UNCHANGED <<lastKnownState, phase, monitor, config, shown, timerAction>>

\* an updateState that shows state 0 when the detection is 'unknown'
UpdateDetect_unknownResets(e) ==
    /\ e.pc = "u_detect"
    /\ \E d \in detectState :
         IF d # "unknown"
         THEN /\ button' = setButtonState(d, button)
              /\ tasks' = Resume(e, [e EXCEPT !.pc = "u_setstate", !.detected = d])
              /\ UNCHANGED <<isUpdating, stateCheckInterval, liveIntervals>>
         ELSE /\ button' = 0
              /\ updateStateReturn(e)
    /\ UNCHANGED <<zoom, visible, pendingVerify, title>>
    /\ UNCHANGED <<lastKnownState, phase, monitor, config, shown, timerAction>>

\* detectState returned: a state other than 'unknown' is shown, and
\* 'unknown' falls through to the finally block
UpdateDetect(e) ==
    /\ e.pc = "u_detect"
    /\ \E d \in detectState :
         IF d # "unknown"
         THEN /\ button' = setButtonState(d, button)
              /\ tasks' = Resume(e, [e EXCEPT !.pc = "u_setstate", !.detected = d])
              /\ UNCHANGED <<isUpdating, stateCheckInterval, liveIntervals>>
         ELSE /\ button' = button
              /\ updateStateReturn(e)
    /\ UNCHANGED <<zoom, visible, pendingVerify, title>>
    /\ UNCHANGED <<lastKnownState, phase, monitor, config, shown, timerAction>>

\* an updateState that shows the detected state and leaves the title alone
UpdateSetState_keepsTitle(e) ==
    /\ e.pc = "u_setstate"
    /\ title' = title
    /\ tasks' = Resume(e, [e EXCEPT !.pc = "u_cleartitle"])
    /\ UNCHANGED <<zoom, visible, isUpdating, stateCheckInterval, liveIntervals,
                   pendingVerify, button>>
    /\ UNCHANGED <<lastKnownState, phase, monitor, config, shown, timerAction>>

\* setButtonState returned: clear the title
UpdateSetState(e) ==
    /\ e.pc = "u_setstate"
    /\ title' = TitleNone
    /\ tasks' = Resume(e, [e EXCEPT !.pc = "u_cleartitle"])
    /\ UNCHANGED <<zoom, visible, isUpdating, stateCheckInterval, liveIntervals,
                   pendingVerify, button>>
    /\ UNCHANGED <<lastKnownState, phase, monitor, config, shown, timerAction>>

\* the last setTitle of updateState returned
UpdateReturn(e) ==
    /\ e.pc \in {"u_cleartitle", "u_title"}
    /\ updateStateReturn(e)
    /\ UNCHANGED <<zoom, visible, pendingVerify, button, title>>
    /\ UNCHANGED <<lastKnownState, phase, monitor, config, shown, timerAction>>

\* ---- onWillAppear / onWillDisappear ----------------------------------------
onWillAppear ==
    /\ ~visible
    /\ visible' = TRUE
    /\ IF isUpdating
       THEN /\ startPeriodicStateCheck
            /\ UNCHANGED <<isUpdating, tasks>>
       ELSE /\ CanStart
            /\ updateStateEnter(Idle, "appear")
            /\ UNCHANGED <<stateCheckInterval, liveIntervals>>
    /\ UNCHANGED <<zoom, pendingVerify, button, title>>
    /\ UNCHANGED <<lastKnownState, phase, monitor, config, shown, timerAction>>

\* onWillDisappear that forgets the handle without clearInterval
onWillDisappear_noClear ==
    /\ visible
    /\ visible' = FALSE
    /\ liveIntervals' = liveIntervals
    /\ stateCheckInterval' = 0
    /\ UNCHANGED <<zoom, isUpdating, pendingVerify, button, title, tasks>>
    /\ UNCHANGED <<lastKnownState, phase, monitor, config, shown, timerAction>>

\* onWillDisappear: cleanup() and nothing else
onWillDisappear ==
    /\ visible
    /\ visible' = FALSE
    /\ liveIntervals' = cleanup(liveIntervals, stateCheckInterval)
    /\ stateCheckInterval' = 0
    /\ UNCHANGED <<zoom, isUpdating, pendingVerify, button, title, tasks>>
    /\ UNCHANGED <<lastKnownState, phase, monitor, config, shown, timerAction>>

\* ---- the interval callback of startPeriodicStateCheck ----------------------
TickFires ==
    /\ liveIntervals # {}
    /\ CanStart
    /\ tasks' = Start([Idle EXCEPT !.kind = "tick", !.pc = "t_running", !.nProbe = 1])
    /\ UNCHANGED <<zoom, visible, isUpdating, stateCheckInterval, liveIntervals,
                   pendingVerify, button, title>>
    /\ UNCHANGED <<lastKnownState, phase, monitor, config, shown, timerAction>>

\* an interval callback that clears its timer when Zoom is not running
TickRunning_stops(e) ==
    /\ e.pc = "t_running"
    /\ \E r \in isZoomRunning :
         IF r
         THEN /\ tasks' = Resume(e, [e EXCEPT !.pc = "t_meeting", !.nProbe = @ + 1])
              /\ UNCHANGED <<stateCheckInterval, liveIntervals>>
         ELSE /\ tasks' = End(e)
              /\ liveIntervals' = cleanup(liveIntervals, stateCheckInterval)
              /\ stateCheckInterval' = 0
    /\ UNCHANGED <<zoom, visible, isUpdating, pendingVerify, button, title>>
    /\ UNCHANGED <<lastKnownState, phase, monitor, config, shown, timerAction>>

\* isZoomRunning returned inside the interval callback
TickRunning(e) ==
    /\ e.pc = "t_running"
    /\ \E r \in isZoomRunning :
         tasks' = IF r
                  THEN Resume(e, [e EXCEPT !.pc = "t_meeting", !.nProbe = @ + 1])
                  ELSE End(e)
    /\ UNCHANGED <<zoom, visible, isUpdating, stateCheckInterval, liveIntervals,
                   pendingVerify, button, title>>
    /\ UNCHANGED <<lastKnownState, phase, monitor, config, shown, timerAction>>

\* an interval callback that never calls updateState
TickMeeting_skips(e) ==
    /\ e.pc = "t_meeting"
    /\ \E r \in isInMeeting :
         /\ tasks' = End(e)
         /\ UNCHANGED isUpdating
    /\ UNCHANGED <<zoom, visible, stateCheckInterval, liveIntervals,
                   pendingVerify, button, title>>
    /\ UNCHANGED <<lastKnownState, phase, monitor, config, shown, timerAction>>

\* isInMeeting returned inside the interval callback
TickMeeting(e) ==
    /\ e.pc = "t_meeting"
    /\ \E r \in isInMeeting :
         IF r /\ ~isUpdating
         THEN updateStateEnter(e, "tick")
         ELSE /\ tasks' = End(e)
              /\ UNCHANGED isUpdating
    /\ UNCHANGED <<zoom, visible, stateCheckInterval, liveIntervals,
                   pendingVerify, button, title>>
    /\ UNCHANGED <<lastKnownState, phase, monitor, config, shown, timerAction>>

\* ---- onKeyDown and executeToggleAction -------------------------------------
\* setTimeout(..., stateUpdateDelay) after executeToggleAction returned
scheduleVerification(e) ==
    /\ pendingVerify < MaxPending
    /\ pendingVerify' = pendingVerify + 1
    /\ tasks' = End(e)

\* an onKeyDown whose cleanup clears the timer but keeps the handle
onKeyDown_keepsHandle ==
    /\ visible
    /\ CanStart
    /\ liveIntervals' = cleanup(liveIntervals, stateCheckInterval)
    /\ stateCheckInterval' = stateCheckInterval
    /\ tasks' = Start([Idle EXCEPT !.kind = "key", !.pc = "k_running", !.nProbe = 1])
    /\ UNCHANGED <<zoom, visible, isUpdating, pendingVerify, button, title>>
    /\ UNCHANGED <<lastKnownState, phase, monitor, config, shown, timerAction>>

onKeyDown ==
    /\ visible
    /\ CanStart
    /\ liveIntervals' = cleanup(liveIntervals, stateCheckInterval)
    /\ stateCheckInterval' = 0
    /\ tasks' = Start([Idle EXCEPT !.kind = "key", !.pc = "k_running", !.nProbe = 1])
    /\ UNCHANGED <<zoom, visible, isUpdating, pendingVerify, button, title>>
    /\ UNCHANGED <<lastKnownState, phase, monitor, config, shown, timerAction>>

\* isZoomRunning returned inside onKeyDown; the shortcut is validated and
\* executeToggleAction starts its loop
KeyRunning(e) ==
    /\ e.pc = "k_running"
    /\ \E r \in isZoomRunning :
         IF ~r
         THEN /\ title' = TitleNotRunning
              /\ tasks' = Resume(e, [e EXCEPT !.pc = "k_title", !.absent = TRUE])
              /\ UNCHANGED pendingVerify
         ELSE \E valid \in validateKeyboardShortcut :
                 IF ~valid
                 THEN /\ title' = TitleError
                      /\ tasks' = Resume(e, [e EXCEPT !.pc = "k_errtitle", !.error = -1])
                      /\ UNCHANGED pendingVerify
                 ELSE /\ title' = title
                      /\ IF 0 < config.maxRetryAttempts
                         THEN /\ tasks' = Resume(e, [e EXCEPT !.pc = "k_exec",
                                                               !.nExec = @ + 1])
                              /\ UNCHANGED pendingVerify
                         ELSE scheduleVerification(e)
    /\ UNCHANGED <<zoom, visible, isUpdating, stateCheckInterval, liveIntervals, button>>
    /\ UNCHANGED <<lastKnownState, phase, monitor, config, shown, timerAction>>

\* a catch block that throws the error of the first attempt
retryOrThrow_firstError(e) ==
    LET attempt == e.attempt + 1 IN
    IF attempt >= config.maxRetryAttempts
    THEN /\ title' = TitleError
         /\ tasks' = Resume(e, [e EXCEPT !.attempt = attempt, !.pc = "k_errtitle",
                                   !.nFail = @ + 1, !.error = 1])
    ELSE /\ title' = title
         /\ tasks' = Resume(e, [e EXCEPT !.attempt = attempt, !.pc = "k_delay",
                                   !.nFail = @ + 1,
                                   !.delays = Append(@, backoff(attempt))])

\* the catch block with  attempt > maxRetryAttempts  as its test
retryOrThrow_offByOne(e) ==
    LET attempt == e.attempt + 1 IN
    IF attempt > config.maxRetryAttempts
    THEN /\ title' = TitleError
         /\ tasks' = Resume(e, [e EXCEPT !.attempt = attempt, !.pc = "k_errtitle",
                                   !.nFail = @ + 1, !.error = e.nExec])
    ELSE /\ title' = title
         /\ tasks' = Resume(e, [e EXCEPT !.attempt = attempt, !.pc = "k_delay",
                                   !.nFail = @ + 1,
                                   !.delays = Append(@, backoff(attempt))])

\* the catch block of executeToggleAction after a failed attempt
retryOrThrow(e) ==
    LET attempt == e.attempt + 1 IN
    IF attempt >= config.maxRetryAttempts
    THEN /\ title' = TitleError
         /\ tasks' = Resume(e, [e EXCEPT !.attempt = attempt, !.pc = "k_errtitle",
                                   !.nFail = @ + 1, !.error = e.nExec])
    ELSE /\ title' = title
         /\ tasks' = Resume(e, [e EXCEPT !.attempt = attempt, !.pc = "k_delay",
                                   !.nFail = @ + 1,
                                   !.delays = Append(@, backoff(attempt))])

\* an executeToggleAction without the return after a successful attempt
KeyExec_noReturn(e) ==
    /\ e.pc = "k_exec"
    /\ \E ok \in executeAppleScript :
         IF ok
         THEN /\ zoom' = Toggled(zoom)
              /\ title' = title
              /\ IF e.attempt + 1 < config.maxRetryAttempts
                 THEN /\ tasks' = Resume(e, [e EXCEPT !.attempt = @ + 1, !.nExec = @ + 1])
                      /\ UNCHANGED pendingVerify
                 ELSE scheduleVerification(e)
         ELSE /\ zoom' = zoom
              /\ retryOrThrow(e)
              /\ UNCHANGED pendingVerify
    /\ UNCHANGED <<visible, isUpdating, stateCheckInterval, liveIntervals, button>>
    /\ UNCHANGED <<lastKnownState, phase, monitor, config, shown, timerAction>>

\* one attempt of the toggle script returned
KeyExec(e) ==
    /\ e.pc = "k_exec"
    /\ \E ok \in executeAppleScript :
         IF ok
         THEN /\ zoom' = Toggled(zoom)
              /\ title' = title
              /\ scheduleVerification(e)
         ELSE /\ zoom' = zoom
              /\ retryOrThrow(e)
              /\ UNCHANGED pendingVerify
    /\ UNCHANGED <<visible, isUpdating, stateCheckInterval, liveIntervals, button>>
    /\ UNCHANGED <<lastKnownState, phase, monitor, config, shown, timerAction>>

\* the backoff delay elapsed: the while condition is tested again
KeyDelay(e) ==
    /\ e.pc = "k_delay"
    /\ IF e.attempt < config.maxRetryAttempts
       THEN /\ tasks' = Resume(e, [e EXCEPT !.pc = "k_exec", !.nExec = @ + 1])
            /\ UNCHANGED pendingVerify
       ELSE scheduleVerification(e)
    /\ UNCHANGED <<zoom, visible, isUpdating, stateCheckInterval, liveIntervals,
                   button, title>>
    /\ UNCHANGED <<lastKnownState, phase, monitor, config, shown, timerAction>>

\* setTitle of the early return or of the catch block returned
KeyReturn(e) ==
    /\ e.pc \in {"k_title", "k_errtitle"}
    /\ tasks' = End(e)
    /\ UNCHANGED <<zoom, visible, isUpdating, stateCheckInterval, liveIntervals,
                   pendingVerify, button, title>>
    /\ UNCHANGED <<lastKnownState, phase, monitor, config, shown, timerAction>>

\* ---- the verification callback armed by onKeyDown --------------------------
VerifyFires ==
    /\ pendingVerify > 0
    /\ pendingVerify' = pendingVerify - 1
    /\ IF isUpdating
       THEN /\ startPeriodicStateCheck
            /\ UNCHANGED <<isUpdating, tasks>>
       ELSE /\ CanStart
            /\ updateStateEnter(Idle, "verify")
            /\ UNCHANGED <<stateCheckInterval, liveIntervals>>
    /\ UNCHANGED <<zoom, visible, button, title>>
    /\ UNCHANGED <<lastKnownState, phase, monitor, config, shown, timerAction>>

Next ==
    \/ EnvChange
    \/ onWillAppear
    \/ onWillDisappear
    \/ onKeyDown
    \/ TickFires
    \/ VerifyFires
    \/ \E e \in Running : UpdateRunning(e)
    \/ \E e \in Running : UpdateMeeting(e)
    \/ \E e \in Running : UpdateDetect(e)
    \/ \E e \in Running : UpdateSetState(e)
    \/ \E e \in Running : UpdateReturn(e)
    \/ \E e \in Running : TickRunning(e)
    \/ \E e \in Running : TickMeeting(e)
    \/ \E e \in Running : KeyRunning(e)
    \/ \E e \in Running : KeyExec(e)
    \/ \E e \in Running : KeyDelay(e)
    \/ \E e \in Running : KeyReturn(e)

Spec == Init /\ [][Next]_vars

TypeOK ==
    /\ zoom \in ZoomValues
    /\ visible \in BOOLEAN
    /\ isUpdating \in BOOLEAN
    /\ stateCheckInterval \in Handles \cup {0}
    /\ liveIntervals \subseteq Handles
    /\ pendingVerify \in 0..MaxPending
    /\ button \in {0, 1}
    /\ title \in {TitleNone, TitleNotRunning, TitleNotInMeeting, TitleError}
    /\ phase \in {"free", "settled"}
    /\ config = DefaultConfig
    /\ shown = {}
    /\ timerAction = 0

(***************************************************************************)
(* The stand-alone ZoomVideoToggle, which does not extend ZoomToggleBase.  *)
(* Its probes and its toggle command are execSync calls, so they run       *)
(* inside the step that makes them; it awaits only the display calls and   *)
(* detectVideoState.  It has no isUpdating flag and keeps lastKnownState.  *)
(***************************************************************************)
UnchangedByVideo == UNCHANGED <<isUpdating, phase, monitor, config, shown, timerAction>>

\* ZoomVideoToggle.setButtonState
videoSetButtonState(state) == IF state = "video_off" THEN 0 ELSE 1

\* ZoomVideoToggle.startPeriodicStateCheck: setInterval without clearing
videoStartPeriodicStateCheck ==
    /\ Handles \ liveIntervals # {}
    /\ liveIntervals' = liveIntervals \cup {NewHandle(liveIntervals)}
    /\ stateCheckInterval' = NewHandle(liveIntervals)

\* ZoomVideoToggle.updateState up to its first await
videoUpdateState(kind) ==
    \E r \in isZoomRunning, m \in isInMeeting :
       IF ~r
       THEN /\ title' = TitleNotRunning
            /\ tasks' = Start([Idle EXCEPT !.kind = kind, !.pc = "v_reset", !.absent = TRUE, !.nProbe = 1])
       ELSE IF ~m
       THEN /\ title' = TitleNotInMeeting
            /\ tasks' = Start([Idle EXCEPT !.kind = kind, !.pc = "v_reset", !.nProbe = 2])
       ELSE /\ title' = title
            /\ tasks' = Start([Idle EXCEPT !.kind = kind, !.pc = "v_detect", !.nProbe = 2, !.nDetect = 1])

\* the end of updateState and the continuation of its caller
videoUpdateReturn(e) ==
    /\ tasks' = End(e)
    /\ IF e.kind = "appear"
       THEN videoStartPeriodicStateCheck
       ELSE UNCHANGED <<stateCheckInterval, liveIntervals>>

VideoWillAppear ==
    /\ ~visible
    /\ CanStart
    /\ visible' = TRUE
    /\ videoUpdateState("appear")
    /\ UNCHANGED <<zoom, stateCheckInterval, liveIntervals, pendingVerify,
                   button, lastKnownState>>
    /\ UnchangedByVideo

VideoWillDisappear ==
    /\ visible
    /\ visible' = FALSE
    /\ liveIntervals' = cleanup(liveIntervals, stateCheckInterval)
    /\ UNCHANGED <<zoom, stateCheckInterval, pendingVerify, button, title,
                   tasks, lastKnownState>>
    /\ UnchangedByVideo

\* detectVideoState returned
VideoDetect(e) ==
    /\ e.pc = "v_detect"
    /\ \E d \in detectState :
         IF d # "unknown"
         THEN /\ button' = videoSetButtonState(d)
              /\ title' = title
              /\ tasks' = Resume(e, [e EXCEPT !.pc = "v_setstate", !.detected = d])
         ELSE /\ button' = button
              /\ title' = TitleMeeting
              /\ tasks' = Resume(e, [e EXCEPT !.pc = "v_title", !.detected = d])
    /\ UNCHANGED <<zoom, visible, stateCheckInterval, liveIntervals,
                   pendingVerify, lastKnownState>>
    /\ UnchangedByVideo

\* setButtonState returned in updateState: the detected state is recorded
VideoSetState(e) ==
    /\ e.pc = "v_setstate"
    /\ lastKnownState' = e.detected
    /\ videoUpdateReturn(e)
    /\ UNCHANGED <<zoom, visible, pendingVerify, button, title>>
    /\ UnchangedByVideo

\* setTitle of 'Zoom Not Running' / 'Not in Meeting' returned
VideoReset(e) ==
    /\ e.pc = "v_reset"
    /\ lastKnownState' = "unknown"
    /\ videoUpdateReturn(e)
    /\ UNCHANGED <<zoom, visible, pendingVerify, button, title>>
    /\ UnchangedByVideo

\* setTitle of 'Zoom Meeting' returned: the last known state is kept
VideoTitle(e) ==
    /\ e.pc = "v_title"
    /\ videoUpdateReturn(e)
    /\ UNCHANGED <<zoom, visible, pendingVerify, button, title, lastKnownState>>
    /\ UnchangedByVideo

\* ZoomVideoToggle.onKeyDown up to its first await
VideoKeyDown ==
    /\ visible
    /\ CanStart
    /\ \E r \in isZoomRunning, ok \in executeAppleScript :
         LET newState == IF lastKnownState = "video_on" THEN "video_off" ELSE "video_on" IN
         IF ~r
         THEN /\ title' = TitleNotRunning
              /\ tasks' = Start([Idle EXCEPT !.kind = "key", !.pc = "vk_title", !.absent = TRUE, !.nProbe = 1])
              /\ UNCHANGED <<zoom, button>>
         ELSE IF ~ok
         THEN /\ title' = TitleError
              /\ tasks' = Start([Idle EXCEPT !.kind = "key", !.pc = "vk_title", !.nProbe = 1,
                                  !.nExec = 1, !.nFail = 1])
              /\ UNCHANGED <<zoom, button>>
         ELSE /\ zoom' = Toggled(zoom)
              /\ button' = videoSetButtonState(newState)
              /\ title' = title
              /\ tasks' = Start([Idle EXCEPT !.kind = "key", !.pc = "vk_setstate", !.nProbe = 1,
                                  !.nExec = 1, !.newState = newState])
    /\ UNCHANGED <<visible, stateCheckInterval, liveIntervals, pendingVerify,
                   lastKnownState>>
    /\ UnchangedByVideo

\* setButtonState returned in onKeyDown: record the new state, arm verification
VideoKeySetState(e) ==
    /\ e.pc = "vk_setstate"
    /\ pendingVerify < MaxPending
    /\ lastKnownState' = e.newState
    /\ pendingVerify' = pendingVerify + 1
    /\ tasks' = End(e)
    /\ UNCHANGED <<zoom, visible, stateCheckInterval, liveIntervals, button, title>>
    /\ UnchangedByVideo

VideoKeyReturn(e) ==
    /\ e.pc = "vk_title"
    /\ tasks' = End(e)
    /\ UNCHANGED <<zoom, visible, stateCheckInterval, liveIntervals, pendingVerify,
                   button, title, lastKnownState>>
    /\ UnchangedByVideo

\* the 800 ms verification callback
VideoVerifyFires ==
    /\ pendingVerify > 0
    /\ CanStart
    /\ pendingVerify' = pendingVerify - 1
    /\ videoUpdateState("verify")
    /\ UNCHANGED <<zoom, visible, stateCheckInterval, liveIntervals, button,
                   lastKnownState>>
    /\ UnchangedByVideo

\* the interval callback, when Zoom runs, is in a meeting and is frontmost
VideoTickFires ==
    /\ liveIntervals # {}
    /\ CanStart
    /\ TRUE \in isZoomRunning
    /\ TRUE \in isInMeeting
    /\ videoUpdateState("tick")
    /\ UNCHANGED <<zoom, visible, stateCheckInterval, liveIntervals, pendingVerify,
                   button, lastKnownState>>
    /\ UnchangedByVideo

VideoEnvChange ==
    /\ zoom' \in VideoZoomValues \ {zoom}
    /\ UNCHANGED <<visible, stateCheckInterval, liveIntervals, pendingVerify,
                   button, title, tasks, lastKnownState>>
    /\ UnchangedByVideo

VideoInit ==
    /\ zoom \in VideoZoomValues
    /\ visible = FALSE
    /\ isUpdating = FALSE
    /\ stateCheckInterval = 0
    /\ liveIntervals = {}
    /\ pendingVerify = 0
    /\ button = 0
    /\ title = TitleNone
    /\ tasks = EmptyBag
    /\ lastKnownState = "unknown"
    /\ phase = "free"
    /\ monitor = NoCall
    /\ config = DefaultConfig
    /\ shown = {}
    /\ timerAction = 0

VideoNext ==
    \/ VideoEnvChange
    \/ VideoWillAppear
    \/ VideoWillDisappear
    \/ VideoKeyDown
    \/ VideoVerifyFires
    \/ VideoTickFires
    \/ \E e \in Running : VideoDetect(e)
    \/ \E e \in Running : VideoSetState(e)
    \/ \E e \in Running : VideoReset(e)
    \/ \E e \in Running : VideoTitle(e)
    \/ \E e \in Running : VideoKeySetState(e)
    \/ \E e \in Running : VideoKeyReturn(e)

SpecVideo == VideoInit /\ [][VideoNext]_vars

(***************************************************************************)
(* ZoomMonitor: what one call returns for each way its osascript run can   *)
(* end.  The text on stdout is a sequence of pieces, one per 'data' event: *)
(* the words the scripts return, the prefix of an error message, other     *)
(* text, and white space.                                                  *)
(***************************************************************************)
Whitespace == {"\n"}
Pieces == {"muted", "unmuted", "video_on", "video_off", "unknown", "no_meeting",
           "error:", "other", "\n"}

\* String.prototype.trim
RECURSIVE trim(_)
trim(str) ==
    IF str = <<>> THEN str
    ELSE IF Head(str) \in Whitespace THEN trim(Tail(str))
    ELSE IF str[Len(str)] \in Whitespace THEN trim(SubSeq(str, 1, Len(str) - 1))
    ELSE str

\* ZoomMonitor.executeAppleScript: resolves with the trimmed stdout on
\* 'close' with code 0, rejects on 'close' with another code and on 'error'
monitorExecuteAppleScript(o) ==
    IF o.exit = "ok"
    THEN [settled |-> "resolved", value |-> trim(o.stdout)]
    ELSE [settled |-> "rejected", value |-> <<>>]

\* detectZoomMuteState without its catch block
detectZoomMuteState_noCatch(o) ==
    LET result == monitorExecuteAppleScript(o)
    IN  IF result.settled = "rejected" THEN "throws"
        ELSE IF result.value = <<"muted">> \/ result.value = <<"unmuted">>
             THEN result.value[1]
             ELSE "unknown"

\* ZoomMonitor.detectZoomMuteState
detectZoomMuteState(o) ==
    LET result == monitorExecuteAppleScript(o)
    IN  IF result.settled = "rejected" THEN "unknown"
        ELSE IF result.value = <<"muted">> \/ result.value = <<"unmuted">>
             THEN result.value[1]
             ELSE "unknown"

\* ZoomMonitor.detectZoomVideoState
detectZoomVideoState(o) ==
    LET result == monitorExecuteAppleScript(o)
    IN  IF result.settled = "rejected" THEN "unknown"
        ELSE IF result.value = <<"video_on">> \/ result.value = <<"video_off">>
             THEN result.value[1]
             ELSE "unknown"

\* ZoomMonitor.getAudioState
getAudioState(o) ==
    LET zoomState == detectZoomMuteState(o)
    IN  [zoomState |-> zoomState,
         confidence |-> IF zoomState # "unknown" THEN "high" ELSE "low"]

\* ZoomMonitor.getVideoState
getVideoState(o) ==
    LET zoomState == detectZoomVideoState(o)
    IN  [zoomState |-> zoomState,
         confidence |-> IF zoomState # "unknown" THEN "high" ELSE "low"]

\* the last state other than 'unknown' that each call returned before the
\* present one; ZoomMonitor itself keeps no such record
PrevConfirmed ==
    IF monitor.call # "none" /\ monitor.zoomState # "unknown"
    THEN [monitor.prev EXCEPT ![monitor.call] = monitor.zoomState]
    ELSE monitor.prev

UnchangedByMonitor ==
    UNCHANGED <<zoom, visible, isUpdating, stateCheckInterval, liveIntervals,
                pendingVerify, button, title, tasks, lastKnownState, phase, config, shown, timerAction>>

\* no osascript of ZoomMonitor is running
MonitorIdle == monitor.exit # "running"

\* getAudioState called: detectZoomMuteState spawns osascript
getAudioStateCall ==
    /\ MonitorIdle
    /\ monitor' = [call |-> "audio", exit |-> "running", stdout |-> <<>>,
                   prev |-> PrevConfirmed, zoomState |-> "pending",
                   confidence |-> "pending"]
    /\ UnchangedByMonitor

\* getVideoState called: detectZoomVideoState spawns osascript
getVideoStateCall ==
    /\ MonitorIdle
    /\ monitor' = [call |-> "video", exit |-> "running", stdout |-> <<>>,
                   prev |-> PrevConfirmed, zoomState |-> "pending",
                   confidence |-> "pending"]
    /\ UnchangedByMonitor

\* process.stdout.on('data'): stdout += data
StdoutData ==
    /\ monitor.exit = "running"
    /\ Len(monitor.stdout) < MaxOut
    /\ \E c \in Pieces : monitor' = [monitor EXCEPT !.stdout = Append(@, c)]
    /\ UnchangedByMonitor

\* the promise settles and the call returns to its caller
MonitorReturn(x) ==
    LET o == [exit |-> x, stdout |-> monitor.stdout]
        r == IF monitor.call = "audio" THEN getAudioState(o) ELSE getVideoState(o)
    IN  monitor' = [monitor EXCEPT !.exit = x, !.zoomState = r.zoomState,
                                   !.confidence = r.confidence]

\* process.on('close', code)
ProcessClose ==
    /\ monitor.exit = "running"
    /\ \E x \in {"ok", "nonzero"} : MonitorReturn(x)
    /\ UnchangedByMonitor

\* process.on('error')
ProcessError ==
    /\ monitor.exit = "running"
    /\ MonitorReturn("spawn_error")
    /\ UnchangedByMonitor

MonitorNext ==
    \/ getAudioStateCall
    \/ getVideoStateCall
    \/ StdoutData
    \/ ProcessClose
    \/ ProcessError

SpecMonitor == Init /\ [][MonitorNext]_vars

(***************************************************************************)
(* Behaviours in which the user and Zoom come to rest, with the scheduling *)
(* of the event loop: a timer that stays armed fires, and a handler whose  *)
(* awaited call returned is resumed.                                       *)
(***************************************************************************)
\* the action is shown and Zoom is in a meeting: from here on the user
\* presses no key, the action stays shown, nobody but the plugin touches
\* Zoom, and pgrep and osascript answer
Settle ==
    /\ phase = "free"
    /\ visible
    /\ zoom \in MeetingValues
    /\ phase' = "settled"
    /\ UNCHANGED <<zoom, visible, isUpdating, stateCheckInterval, liveIntervals,
                   pendingVerify, button, title, tasks, lastKnownState, monitor,
                   config, shown, timerAction>>

\* a spawned pgrep or osascript never exits: neither 'close' nor 'error' is
\* emitted, and no timer rejects the promise the handler awaits
ProbeHangs(e) ==
    /\ e.pc \in {"u_running", "u_meeting", "u_detect", "t_running", "t_meeting"}
    /\ tasks' = Resume(e, [e EXCEPT !.pc = "hung"])
    /\ UNCHANGED <<zoom, visible, isUpdating, stateCheckInterval, liveIntervals,
                   pendingVerify, button, title>>
    /\ UNCHANGED <<lastKnownState, phase, monitor, config, shown, timerAction>>

\* the awaited call of a handler inside updateState returned
UpdateFairness ==
    /\ WF_vars(\E e \in Running : UpdateRunning(e))
    /\ WF_vars(\E e \in Running : UpdateMeeting(e))
    /\ WF_vars(\E e \in Running : UpdateDetect(e))
    /\ WF_vars(\E e \in Running : UpdateSetState(e))
    /\ WF_vars(\E e \in Running : UpdateReturn(e))

\* the interval timer fires, and the probes of its callback return
TickFairness ==
    /\ WF_vars(TickFires)
    /\ WF_vars(\E e \in Running : TickRunning(e))
    /\ WF_vars(\E e \in Running : TickMeeting(e))

\* the verification timeout fires, and the awaited calls of onKeyDown return
KeyFairness ==
    /\ WF_vars(VerifyFires)
    /\ WF_vars(\E e \in Running : KeyRunning(e))
    /\ WF_vars(\E e \in Running : KeyExec(e))
    /\ WF_vars(\E e \in Running : KeyDelay(e))
    /\ WF_vars(\E e \in Running : KeyReturn(e))

\* no key is ever pressed
AutoNext ==
    \/ phase = "free" /\ EnvChange
    \/ phase = "free" /\ onWillAppear
    \/ phase = "free" /\ onWillDisappear
    \/ Settle
    \/ TickFires
    \/ \E e \in Running : UpdateRunning(e)
    \/ \E e \in Running : UpdateMeeting(e)
    \/ \E e \in Running : UpdateDetect(e)
    \/ \E e \in Running : UpdateSetState(e)
    \/ \E e \in Running : UpdateReturn(e)
    \/ \E e \in Running : TickRunning(e)
    \/ \E e \in Running : TickMeeting(e)

SpecAuto == Init /\ [][AutoNext]_vars /\ UpdateFairness /\ TickFairness

\* keys are pressed until the user is done
LiveNext ==
    \/ AutoNext
    \/ phase = "free" /\ onKeyDown
    \/ VerifyFires
    \/ \E e \in Running : KeyRunning(e)
    \/ \E e \in Running : KeyExec(e)
    \/ \E e \in Running : KeyDelay(e)
    \/ \E e \in Running : KeyReturn(e)

SpecLive == Init /\ [][LiveNext]_vars /\ UpdateFairness /\ TickFairness /\ KeyFairness

\* no key is pressed, and a spawned process may never exit
HangNext ==
    \/ AutoNext
    \/ \E e \in Running : ProbeHangs(e)

SpecHang == Init /\ [][HangNext]_vars /\ UpdateFairness /\ TickFairness

(***************************************************************************)
(* setButtonState of the two toggles, called with every state string: the  *)
(* words ZoomMonitor returns, the other texts a script writes, and "".     *)
(***************************************************************************)
StateStrings == Pieces \cup {""}

ButtonInit ==
    /\ zoom = "absent"
    /\ visible = TRUE
    /\ isUpdating = FALSE
    /\ stateCheckInterval = 0
    /\ liveIntervals = {}
    /\ pendingVerify = 0
    /\ button \in {0, 1}
    /\ title = TitleNone
    /\ tasks = EmptyBag
    /\ lastKnownState = "unknown"
    /\ phase = "free"
    /\ monitor = NoCall
    /\ config = DefaultConfig
    /\ shown = {}
    /\ timerAction = 0

\* setButtonState(action, state) called: setState is called, or not, and awaited
setButtonStateCall ==
    /\ CanStart
    /\ \E toggle \in {"mute", "video"}, state \in StateStrings :
         /\ button' = IF toggle = "mute"
                       THEN setButtonState(state, button)
                       ELSE setVideoButtonState(state, button)
         /\ tasks' = Start([Idle EXCEPT !.kind = toggle, !.pc = "s_setstate",
                                        !.detected = state])
    /\ UNCHANGED <<zoom, visible, isUpdating, stateCheckInterval, liveIntervals,
                   pendingVerify, title>>
    /\ UNCHANGED <<lastKnownState, phase, monitor, config, shown, timerAction>>

\* setButtonState returns
setButtonStateReturn(e) ==
    /\ e.pc = "s_setstate"
    /\ tasks' = End(e)
    /\ UNCHANGED <<zoom, visible, isUpdating, stateCheckInterval, liveIntervals,
                   pendingVerify, button, title>>
    /\ UNCHANGED <<lastKnownState, phase, monitor, config, shown, timerAction>>

ButtonNext ==
    \/ setButtonStateCall
    \/ \E e \in Running : setButtonStateReturn(e)

SpecButton == ButtonInit /\ [][ButtonNext]_vars

(***************************************************************************)
(* executeToggleAction under every configuration: key presses on a shown   *)
(* action, with maxRetryAttempts and retryDelay drawn from bounded sets.   *)
(***************************************************************************)
Configs ==
    [maxRetryAttempts : 0..MaxAttempts, retryDelay : (1..MaxDelay) \cup {retryDelay}]

RetryInit ==
    /\ zoom \in MeetingValues
    /\ visible = TRUE
    /\ isUpdating = FALSE
    /\ stateCheckInterval = 0
    /\ liveIntervals = {}
    /\ pendingVerify = 0
    /\ button = 0
    /\ title = TitleNone
    /\ tasks = EmptyBag
    /\ lastKnownState = "unknown"
    /\ phase = "free"
    /\ monitor = NoCall
    /\ config \in Configs
    /\ shown = {}
    /\ timerAction = 0

RetryNext ==
    \/ onKeyDown
    \/ \E e \in Running : KeyRunning(e)
    \/ \E e \in Running : KeyExec(e)
    \/ \E e \in Running : KeyDelay(e)
    \/ \E e \in Running : KeyReturn(e)

SpecRetry == RetryInit /\ [][RetryNext]_vars

(***************************************************************************)
(* Properties                                                              *)
(***************************************************************************)
\* the number of suspended invocations in bag b that satisfy Test
Count(b, Test(_)) ==
    LET S == {x \in BagToSet(b) : Test(x)} IN BagCardinality([x \in S |-> b[x]])

\* executeToggleAction is in progress in task e
InExecute(e) == e.pc \in {"k_exec", "k_delay"}

\* a reconciliation cycle in progress: a toggle execution or an updateState run
IsActiveCycle(e) == InUpdate(e) \/ InExecute(e)

IsKey(e) == e.kind = "key"
IsTick(e) == e.kind = "tick"
IsSession(e) == e.kind \in {"key", "verify"}
IsAbsent(e) == e.absent
IsFirstAttempt(e) == e.pc = "k_exec" /\ e.nExec = 1
IsExhausted(e) == e.nFail >= 3
IsSilentTick(e) == e.kind = "tick" /\ e.nProbe = 0 /\ e.nDetect = 0
IsSilentKey(e) == e.kind = "key" /\ e.nProbe = 0 /\ e.nExec = 0

\* a toggle session is in flight or an updateState holds isUpdating
CycleInFlight ==
    \/ isUpdating
    \/ pendingVerify > 0
    \/ \E e \in Running : IsSession(e)

\* the state index the README assigns to a detected state
StateIndex(s) == IF s = "muted" THEN 0 ELSE 1

\* C1: at most one reconciliation cycle is active at any time: a toggle
\* execution, a verification probe and a periodic probe never overlap.
C1_MutualExclusion == Count(tasks, IsActiveCycle) <= 1

\* C2: when onKeyDown starts executeToggleAction the displayed state has
\* already been flipped to the opposite of the state shown before the press.
C2_OptimisticFlip ==
    [][Count(tasks', IsFirstAttempt) > Count(tasks, IsFirstAttempt)
          => button' = 1 - button]_vars

\* C3: when detection in the verification callback returns a state other
\* than unknown, that state is the displayed state for the rest of the cycle.
C3_VerifyShowsDetected ==
    \A e \in Running :
       e.kind = "verify" /\ e.pc \in {"u_setstate", "u_cleartitle"}
          => /\ e.detected \in {"muted", "unmuted"}
             /\ button = StateIndex(e.detected)

C3_Witness ==
    \E e \in Running :
       /\ e.kind = "verify"
       /\ e.pc = "u_cleartitle"
       /\ e.detected = "unmuted"
       /\ button = 1

\* C4: a cycle (onKeyDown or updateState) whose isZoomRunning check returned
\* false calls neither detectState nor the toggle script, and the step that
\* sees the result shows 'Zoom Not Running'.
C4_FailOpenOnAbsence ==
    /\ [](\A e \in Running : e.absent => e.nDetect = 0 /\ e.nExec = 0)
    /\ [][Count(tasks', IsAbsent) > Count(tasks, IsAbsent)
             => title' = TitleNotRunning]_vars

C4_Witness ==
    \E e, f \in Running :
       /\ e.kind = "key" /\ e.absent
       /\ f.kind \in {"appear", "verify", "tick"} /\ f.absent
       /\ title = TitleNotRunning

\* C5: when the toggle script fails twice and then succeeds, three attempts
\* were made, the delays awaited were 200 and 400, and the activation ends by
\* scheduling the verification without showing Error.
C5_RetryBound ==
    [][\A e \in Running :
          e.pc = "k_exec" /\ e.nFail = 2 /\ tasks' = End(e)
             => /\ e.nExec = 3
                /\ e.delays = <<200, 400>>
                /\ pendingVerify' = pendingVerify + 1
                /\ title' = title]_vars

C5_Witness ==
    \E e \in Running :
       /\ e.pc = "k_exec"
       /\ e.nFail = 2
       /\ e.nExec = 3
       /\ e.delays = <<200, 400>>
       /\ title # TitleError

C7_UnknownPreservesOptimism ==
    /\ [][\A e \in Running :
             e.kind = "verify" /\ e.pc = "v_detect" /\ CopiesIn(e, tasks') < CopiesIn(e, tasks)
                => button' = button]_vars
    /\ [][lastKnownState' # lastKnownState /\ lastKnownState' # "unknown"
             => \E e \in Running :
                   e.pc = "v_setstate" /\ e.detected = lastKnownState']_vars

\* C8: an interval callback that fires while a cycle is in flight makes no
\* isZoomRunning, isInMeeting or detectState call.
C8_DroppedOverlap ==
    [][CycleInFlight /\ Count(tasks', IsTick) > Count(tasks, IsTick)
          => Count(tasks', IsSilentTick) > Count(tasks, IsSilentTick)]_vars

\* C9: at most one toggle session exists at any time: two verification timers
\* are never pending at once and two executeToggleAction calls never overlap.
C9_SingleSession ==
    /\ pendingVerify <= 1
    /\ Count(tasks, InExecute) <= 1
    /\ Count(tasks, IsSession) + pendingVerify <= 1

\* C10: a key press made while a cycle is in flight is ignored: it makes no
\* call and changes neither the display nor any timer.
C10_PressIgnored ==
    [][CycleInFlight /\ Count(tasks', IsKey) > Count(tasks, IsKey)
          => /\ Count(tasks', IsSilentKey) > Count(tasks, IsSilentKey)
             /\ UNCHANGED <<button, title, stateCheckInterval, liveIntervals,
                            pendingVerify>>]_vars

\* ---- onWillAppear, onWillDisappear and the timers ---------------------------
IsAppear(e) == e.kind = "appear"
IsAbsentAppear(e) == e.kind = "appear" /\ e.absent

\* C13 (as claimed): when the updateState of onWillAppear found Zoom not
\* running, onWillAppear returns without an interval timer armed.
C13_NoTimerWhenAbsent ==
    [][\A e \in Running :
          IsAbsentAppear(e) /\ tasks' = End(e)
             => liveIntervals' = {} /\ stateCheckInterval' = 0]_vars

\* C13 (amended): when the updateState of onWillAppear finds Zoom not running
\* it shows 'Zoom Not Running' and makes no detection, and onWillAppear then
\* arms the interval timer all the same, as it does after every updateState.
C13_ArmsEvenWhenAbsent ==
    /\ [][Count(tasks', IsAbsentAppear) > Count(tasks, IsAbsentAppear)
            => title' = TitleNotRunning /\ button' = button]_vars
    /\ [][\A e \in Running :
            IsAppear(e) /\ tasks' = End(e)
               => /\ stateCheckInterval' \in liveIntervals'
                  /\ stateCheckInterval' \notin liveIntervals \ {stateCheckInterval}
                  /\ (e.absent => e.nDetect = 0 /\ button' = button /\ title' = title)]_vars

\* onWillAppear found Zoom not running and shows it, about to arm the timer
C13_Witness ==
    \E e \in Running :
       /\ IsAbsentAppear(e) /\ e.pc = "u_title"
       /\ title = TitleNotRunning
       /\ liveIntervals = {}

\* C14: from onWillDisappear until the next onWillAppear no interval timer is
\* armed, whatever was still pending when the action disappeared.
C14_NoTimerWhileHidden == ~visible => liveIntervals = {} /\ stateCheckInterval = 0

\* C15: a verification callback that fires after onWillDisappear does nothing:
\* it starts no probe, changes nothing on the display and arms no timer.
C15_VerifyAfterDisappearNoOp ==
    [][~visible /\ pendingVerify' < pendingVerify
          => UNCHANGED <<tasks, isUpdating, button, title, stateCheckInterval,
                         liveIntervals>>]_vars

\* C16 (as claimed): when onWillDisappear returns, isUpdating is false and no
\* verification timer is pending.
C16_DisappearReleasesAll ==
    [][visible /\ ~visible' => ~isUpdating' /\ pendingVerify' = 0]_vars

\* C16 (amended): onWillDisappear clears the interval timer and forgets its
\* handle, and leaves isUpdating, the pending verification timers, the
\* handlers in flight and the display exactly as they were.
C16_DisappearClearsIntervalOnly ==
    [][visible /\ ~visible'
          => /\ liveIntervals' = {} /\ stateCheckInterval' = 0
             /\ UNCHANGED <<isUpdating, pendingVerify, tasks, button, title>>]_vars

\* the action disappeared while an updateState held isUpdating and a
\* verification timer was pending: both are still there
C16_Witness ==
    /\ ~visible /\ liveIntervals = {} /\ stateCheckInterval = 0
    /\ isUpdating /\ pendingVerify > 0
    /\ \E e \in Running : InUpdate(e)

IsAbsentTick(e) == e.kind = "tick" /\ e.absent

\* C17 (as claimed): an interval callback that finds Zoom not running stops
\* the interval timer.
C17_TickStopsTimer ==
    [][\A e \in Running :
          e.pc = "t_running" /\ tasks' = End(e)
             => liveIntervals' = {} /\ stateCheckInterval' = 0]_vars

\* C17 (amended): an interval callback that finds Zoom not running makes no
\* further probe and leaves the interval timer armed as it was; found by the
\* callback's own isZoomRunning it changes nothing at all, found inside
\* updateState it ends with isUpdating false.
C17_TickKeepsTimer ==
    /\ [][\A e \in Running :
            e.pc = "t_running" /\ tasks' = End(e)
               => /\ e.nProbe = 1 /\ e.nDetect = 0
                  /\ UNCHANGED <<liveIntervals, stateCheckInterval, isUpdating,
                                 pendingVerify, button, title>>]_vars
    /\ [][\A e \in Running :
            IsAbsentTick(e) /\ tasks' = End(e)
               => /\ e.nDetect = 0 /\ ~isUpdating'
                  /\ UNCHANGED <<liveIntervals, stateCheckInterval, button, title>>]_vars

\* an interval callback found Zoom not running and the timer is still armed
C17_Witness ==
    /\ liveIntervals # {} /\ stateCheckInterval \in liveIntervals
    /\ title = TitleNotRunning
    /\ \E e \in Running : IsAbsentTick(e) /\ e.pc = "u_title"

\* ---- ZoomMonitor ------------------------------------------------------------
\* the words a call may return as a state
StatesOf(call) ==
    IF call = "audio" THEN {"muted", "unmuted"} ELSE {"video_on", "video_off"}

\* the text on stdout without its white space
Words(str) == SelectSeq(str, LAMBDA c : c \notin Whitespace)

\* the last call of ZoomMonitor returned
Returned == monitor.exit \in {"ok", "nonzero", "spawn_error"}

\* the osascript run of the last call gave no state: it could not be
\* spawned, exited with a code other than 0, or wrote something else
NoAnswer ==
    \/ monitor.exit # "ok"
    \/ ~(\E w \in StatesOf(monitor.call) : Words(monitor.stdout) = <<w>>)

C20_FallsBackToPrevious ==
    Returned /\ NoAnswer /\ monitor.prev[monitor.call] # "unknown"
       => monitor.zoomState = monitor.prev[monitor.call] /\ monitor.confidence = "low"

\* ---- convergence of the display ---------------------------------------------
\* the button shows the state Zoom is in
ShowsZoomState == zoom \in MeetingValues /\ button = StateIndex(zoom)

\* C11: once the action stays shown, Zoom stays in its meeting and the probes
\* answer, the button comes to show Zoom's state and keeps showing it,
\* whatever keys were pressed before and however those presses ended.
C11_ConvergesAfterPresses == (phase = "settled") ~> []ShowsZoomState

\* C12: when no key is pressed, the action stays shown and Zoom stays in the
\* state it was put in from outside, a tick of the interval timer probes it
\* and the button comes to show that state, with the title cleared.
C12_AutoSync == (phase = "settled") ~> [](ShowsZoomState /\ title = TitleNone)

\* Zoom was unmuted from outside and a tick made the button show it
C12_Witness ==
    /\ phase = "settled" /\ zoom = "unmuted" /\ button = 1 /\ title = TitleNone
    /\ liveIntervals # {}
    /\ \E e \in Running : IsTick(e) /\ e.pc = "u_cleartitle" /\ e.detected = "unmuted"

\* C19: every updateState that set isUpdating clears it again, even when a
\* spawned pgrep or osascript never exits.
C19_GuardReleased == isUpdating ~> ~isUpdating

\* ---- what updateState shows ---------------------------------------------------
\* C21: in every updateState (of onWillAppear, of the verification callback
\* and of an interval tick) a detection of 'unknown' leaves the button state
\* as it was, and the button state changes only in the step in which a
\* detection returned a state other than 'unknown', to the index of that state.
C21_UnknownKeepsButton ==
    /\ [][\A e \in Running :
            e.pc = "u_detect" /\ tasks' = End(e) => button' = button]_vars
    /\ [][button' # button
            => \E e \in Running, d \in MeetingValues :
                  /\ e.pc = "u_detect"
                  /\ tasks' = Resume(e, [e EXCEPT !.pc = "u_setstate", !.detected = d])
                  /\ button' = StateIndex(d)]_vars

\* the button shows unmuted while Zoom is muted, and a tick is about to
\* receive its detection
C21_Witness ==
    /\ button = 1 /\ zoom = "muted"
    /\ \E e \in Running : IsTick(e) /\ e.pc = "u_detect"

\* ---- executeToggleAction under every configuration -------------------------
\* C22: the delay before each further attempt is double the one before it:
\* retryDelay * 2^(k-2) before attempt k.
C22_ExponentialBackoff ==
    \A e \in Running :
       IsKey(e) => \A i \in 1..Len(e.delays) : e.delays[i] = config.retryDelay * 2 ^ (i - 1)

C29_AttemptsBounded ==
    /\ [](\A e \in Running :
            IsKey(e) => /\ e.nExec <= config.maxRetryAttempts
                        /\ e.nExec = e.nFail + (IF e.pc = "k_exec" THEN 1 ELSE 0))
    /\ [][zoom' # zoom
            => /\ Count(tasks', InExecute) < Count(tasks, InExecute)
               /\ Count(tasks', IsKey) < Count(tasks, IsKey)
               /\ pendingVerify' = pendingVerify + 1]_vars

\* one press succeeded, and another is at the last attempt its
\* configuration allows
C29_Witness ==
    /\ pendingVerify = 1
    /\ config.maxRetryAttempts = 2
    /\ \E e \in Running : e.pc = "k_exec" /\ e.nExec = 2 /\ e.nFail = 1

\* C30: when every attempt failed, the error executeToggleAction throws, and
\* the catch block of onKeyDown receives, is that of the last attempt.
C30_ThrowsLastError ==
    \A e \in Running :
       e.pc = "k_errtitle" /\ e.error # -1
          => /\ e.error = config.maxRetryAttempts
             /\ e.nExec = config.maxRetryAttempts
             /\ e.nFail = config.maxRetryAttempts

\* four attempts failed and onKeyDown caught the error of the fourth
C30_Witness ==
    /\ config.maxRetryAttempts = 4
    /\ title = TitleError
    /\ \E e \in Running : e.pc = "k_errtitle" /\ e.error = 4 /\ e.nFail = 4

\* ---- the Error title and the checks before a toggle --------------------------
\* onKeyDown caught the Error of validateKeyboardShortcut, before any attempt
IsRejectedShortcut(e) ==
    e.kind = "key" /\ e.pc = "k_errtitle" /\ e.error = -1 /\ e.nExec = 0

C24_ToggleOnlyInMeeting ==
    [][Count(tasks', IsFirstAttempt) > Count(tasks, IsFirstAttempt)
          => zoom \in MeetingValues]_vars

IsDetecting(e) == e.nDetect > 0

\* C25: detectState is called only in an updateState whose isZoomRunning and
\* isInMeeting calls both returned true; when Zoom runs without a meeting,
\* the isInMeeting call of updateState is followed by 'Not in Meeting' and no
\* detection.
C25_DetectOnlyInMeeting ==
    /\ [](\A e \in Running :
            /\ (IsDetecting(e) => /\ e.pc \in {"u_detect", "u_setstate", "u_cleartitle"}
                                   /\ e.nDetect = 1 /\ ~e.absent)
            /\ (e.pc = "u_title" => e.nDetect = 0))
    /\ [][Count(tasks', IsDetecting) > Count(tasks, IsDetecting)
            => /\ zoom \in MeetingValues
               /\ title' = title
               /\ \E e \in Running :
                     e.pc = "u_meeting" /\ CopiesIn(e, tasks') < CopiesIn(e, tasks)]_vars
    /\ [][\A e \in Running :
            e.pc = "u_meeting" /\ zoom = "idle" /\ CopiesIn(e, tasks') < CopiesIn(e, tasks)
               => /\ title' = TitleNotInMeeting
                  /\ button' = button
                  /\ Count(tasks', IsDetecting) = Count(tasks, IsDetecting)]_vars

\* Zoom runs without a meeting and an updateState shows it, with no detection
C25_Witness ==
    /\ zoom = "idle" /\ title = TitleNotInMeeting
    /\ \E e \in Running : e.pc = "u_title" /\ ~e.absent /\ e.nDetect = 0

\* ---- setButtonState ------------------------------------------------------------
\* the button state that the call setButtonState(state) of a toggle must leave
ShownAfter(toggle, state, current) ==
    CASE toggle = "mute" /\ state = "muted" -> 0
      [] toggle = "mute" /\ state = "unmuted" -> 1
      [] toggle = "video" /\ state = "video_off" -> 0
      [] toggle = "video" /\ state = "video_on" -> 1
      [] OTHER -> current

\* C26: setButtonState shows state 0 for muted and state 1 for unmuted
\* (0 for video_off and 1 for video_on in the video toggle) and leaves the
\* button state as it was for every other string, unknown included.
C26_ButtonMapping ==
    [][\A toggle \in {"mute", "video"}, state \in StateStrings :
          LET IsCall(e) == e.kind = toggle /\ e.pc = "s_setstate" /\ e.detected = state
          IN  Count(tasks', IsCall) > Count(tasks, IsCall)
                 => button' = ShownAfter(toggle, state, button)]_vars

\* the video toggle was given 'unknown' while showing state 0, and shows 0
C26_Witness ==
    /\ button = 0
    /\ tasks = SetToBag({[Idle EXCEPT !.kind = "video", !.pc = "s_setstate",
                                      !.detected = "unknown"]})


\* ---- updateState when a display call rejects ---------------------------------
\* The probes catch their own failures, so the catch block of updateState is
\* entered only when an awaited setTitle or setState of the Stream Deck SDK
\* rejects.  The catch block logs and awaits setTitle("Error").
DisplayRejects(e) ==
    /\ e.pc \in {"u_title", "u_setstate", "u_cleartitle"}
    /\ title' = TitleError
    /\ tasks' = Resume(e, [e EXCEPT !.pc = "u_errtitle"])
    /\ UNCHANGED <<zoom, visible, isUpdating, stateCheckInterval, liveIntervals,
                   pendingVerify, button>>
    /\ UNCHANGED <<lastKnownState, phase, monitor, config, shown, timerAction>>

\* setTitle("Error") returned: the finally block, then the caller goes on
UpdateCatchReturn(e) ==
    /\ e.pc = "u_errtitle"
    /\ updateStateReturn(e)
    /\ UNCHANGED <<zoom, visible, pendingVerify, button, title>>
    /\ UNCHANGED <<lastKnownState, phase, monitor, config, shown, timerAction>>

\* a catch block with no finally after it: the flag is left as it was
UpdateCatchRejects_noFinally(e) ==
    /\ e.pc = "u_errtitle"
    /\ tasks' = End(e)
    /\ UNCHANGED <<zoom, visible, isUpdating, stateCheckInterval, liveIntervals,
                   pendingVerify, button, title>>
    /\ UNCHANGED <<lastKnownState, phase, monitor, config, shown, timerAction>>

\* setTitle("Error") rejected inside the catch block: the finally block runs
\* and the rejection leaves updateState, so the caller's continuation
\* (startPeriodicStateCheck) is skipped
UpdateCatchRejects(e) ==
    /\ e.pc = "u_errtitle"
    /\ isUpdating' = FALSE
    /\ tasks' = End(e)
    /\ UNCHANGED <<zoom, visible, stateCheckInterval, liveIntervals,
                   pendingVerify, button, title>>
    /\ UNCHANGED <<lastKnownState, phase, monitor, config, shown, timerAction>>

RejectNext ==
    \/ Next
    \/ \E e \in Running : DisplayRejects(e)
    \/ \E e \in Running : UpdateCatchReturn(e)
    \/ \E e \in Running : UpdateCatchRejects(e)

SpecReject == Init /\ [][RejectNext]_vars

\* ---- the isUpdating guard ------------------------------------------------------
\* a step in which an updateState invocation arrives: onWillAppear runs, a
\* verification callback fires, or an interval callback leaves its isInMeeting
\* probe
Invoked ==
    \/ visible' /\ ~visible
    \/ pendingVerify' < pendingVerify
    \/ LET AtMeeting(e) == e.pc = "t_meeting"
       IN  Count(tasks', AtMeeting) < Count(tasks, AtMeeting)

\* C27: isUpdating is true exactly while one updateState invocation is between
\* its entry and its finally block, whichever way it leaves (Zoom not running,
\* not in a meeting, state shown, 'unknown', or a rejected display call), and
\* an invocation that arrives while the flag is set leaves the flag set and
\* starts no second cycle.
C27_GuardHeldOnlyInUpdate ==
    /\ [](isUpdating <=> Count(tasks, InUpdate) = 1)
    /\ [](Count(tasks, InUpdate) <= 1)
    /\ [][isUpdating /\ Invoked
             => isUpdating' /\ Count(tasks', InUpdate) = Count(tasks, InUpdate)]_vars

\* the cycle started by onWillAppear is in its catch block and holds the
\* flag, the button was hidden and shown again meanwhile, and the second
\* onWillAppear met the held flag and went straight on to arm the timer
C27_Witness ==
    /\ isUpdating
    /\ visible
    /\ stateCheckInterval # 0
    /\ pendingVerify = 0
    /\ tasks = SetToBag({[Idle EXCEPT !.kind = "appear", !.pc = "u_errtitle",
                                      !.absent = TRUE, !.nProbe = 1]})


\* ---- the periodic timer --------------------------------------------------------
\* C31: whatever onWillAppear, onKeyDown, verification callbacks and
\* onWillDisappear did, the live interval timers are exactly the one recorded
\* in stateCheckInterval, or none when it is undefined: arming again never
\* leaves an earlier timer running.
C31_OneLiveTimer ==
    liveIntervals = IF stateCheckInterval = 0 THEN {} ELSE {stateCheckInterval}

\* two verification callbacks were pending; the first holds isUpdating, the
\* second met the held flag and armed the timer, and the first will arm it
\* again when its updateState returns
C31_Witness ==
    /\ visible
    /\ stateCheckInterval # 0
    /\ pendingVerify = 0
    /\ \E e \in Running : e.kind = "verify" /\ InUpdate(e)


\* an updateState that showed a detected state and is at its last await
IsReconciled(e) == e.pc = "u_cleartitle"

\* C32: every successful reconciliation of a visible button, one run by an
\* interval callback included, ends with the periodic timer armed afresh: in
\* the step in which such an updateState returns a timer is recorded and live.
C32_ReconcileRearms ==
    [][visible /\ Count(tasks', IsReconciled) < Count(tasks, IsReconciled)
          => stateCheckInterval' # 0 /\ stateCheckInterval' \in liveIntervals']_vars


\* a step in which cleanup() is called: onKeyDown starts or onWillDisappear runs
CleanupCalled ==
    \/ Count(tasks', IsKey) > Count(tasks, IsKey)
    \/ visible /\ ~visible'

\* C33: cleanup() always completes and leaves stateCheckInterval undefined; it
\* cancels the recorded timer and nothing else, and when no timer is recorded
\* (none was armed, or an earlier cleanup already cancelled it) it changes
\* nothing at all.
C33_CleanupIdempotent ==
    [][CleanupCalled
          => /\ stateCheckInterval' = 0
             /\ liveIntervals' = liveIntervals \ {stateCheckInterval}
             /\ (stateCheckInterval = 0
                   => UNCHANGED <<stateCheckInterval, liveIntervals>>)]_vars

\* the key was pressed twice in a row: the second onKeyDown called cleanup()
\* right after the first one had
C33_Witness ==
    /\ stateCheckInterval = 0
    /\ liveIntervals = {}
    /\ tasks = SetToBag({[Idle EXCEPT !.kind = "key", !.pc = "k_running", !.nProbe = 1]})
              (+) SetToBag({[Idle EXCEPT !.kind = "key", !.pc = "k_running", !.nProbe = 1]})


\* a task that calls startPeriodicStateCheck when its updateState returns, or
\* an onKeyDown that has not completed yet
WillArm(e) == e.kind \in {"appear", "verify", "key"}

\* C34: while the button is visible, periodic monitoring is not lost: once
\* every onKeyDown has completed, whether it toggled, found Zoom not running
\* or failed on all attempts, a periodic timer is armed, or a verification
\* timer is pending, or a running handler is about to arm one.
C34_MonitoringKept ==
    visible => \/ stateCheckInterval # 0
               \/ pendingVerify > 0
               \/ Count(tasks, WillArm) > 0


\* ---- Zoom quits or the meeting ends while the timer is armed -----------------
\* The action is shown and its periodic timer armed; Zoom quits, or the
\* meeting ends.  From here on the user presses no key, the action stays
\* shown, Zoom stays as it is, and pgrep and osascript answer.
Leave ==
    /\ phase = "free"
    /\ visible
    /\ stateCheckInterval # 0
    /\ zoom # "absent"
    /\ zoom' \in {"absent", "idle"} \ {zoom}
    /\ phase' = "settled"
    /\ UNCHANGED <<visible, isUpdating, stateCheckInterval, liveIntervals,
                   pendingVerify, button, title, tasks, lastKnownState, monitor,
                   config, shown, timerAction>>

\* no key is ever pressed
LeaveNext ==
    \/ phase = "free" /\ EnvChange
    \/ phase = "free" /\ onWillAppear
    \/ phase = "free" /\ onWillDisappear
    \/ Leave
    \/ TickFires
    \/ \E e \in Running : UpdateRunning(e)
    \/ \E e \in Running : UpdateMeeting(e)
    \/ \E e \in Running : UpdateDetect(e)
    \/ \E e \in Running : UpdateSetState(e)
    \/ \E e \in Running : UpdateReturn(e)
    \/ \E e \in Running : TickRunning(e)
    \/ \E e \in Running : TickMeeting(e)

SpecLeave == Init /\ [][LeaveNext]_vars /\ UpdateFairness /\ TickFairness

\* the title updateState shows for a Zoom that is not in a meeting
Indicator(z) == IF z = "absent" THEN TitleNotRunning ELSE TitleNotInMeeting

\* C35: when Zoom quits or the meeting ends while the periodic timer is armed,
\* the title comes to show 'Zoom Not Running' or 'Not in Meeting' accordingly,
\* with no key pressed.
C35_IndicatorShown == (phase = "settled") ~> (title = Indicator(zoom))


\* ---- the verification callback and the guard ---------------------------------
\* an updateState started by the verification callback, at its first probe
IsVerifyProbe(e) == e.kind = "verify" /\ e.pc = "u_running"

\* C36: every verification callback that fires starts the probes of
\* updateState; it is never turned away because an updateState started by an
\* interval callback or by onWillAppear still holds isUpdating.
C36_VerifyProbes ==
    [][pendingVerify' < pendingVerify
          => Count(tasks', IsVerifyProbe) > Count(tasks, IsVerifyProbe)]_vars


\* ---- executeToggleAction reporting success ------------------------------------
\* an executeToggleAction awaiting one attempt of the toggle script
AtAttempt(e) == e.pc = "k_exec"

\* C37: for every maxRetryAttempts >= 0, executeToggleAction returns normally
\* (and onKeyDown goes on to schedule the verification) only in a step in
\* which an attempt of the toggle script returned successfully; with
\* maxRetryAttempts = 0 it does not return normally without an attempt.
C37_SuccessNeedsAttempt ==
    [][pendingVerify' > pendingVerify
          => Count(tasks', AtAttempt) < Count(tasks, AtAttempt)]_vars


\* ---- the title after a detection ----------------------------------------------
AtDetect(e) == e.pc = "u_detect"
AtSetState(e) == e.pc = "u_setstate"
KeyWroteTitle(e) == e.pc \in {"k_title", "k_errtitle"}

\* C38: an updateState that set the button from a detected state goes on to
\* clear the title, whatever indicator it showed; from that clearing to the
\* end of the cycle the title changes only if an onKeyDown writes it anew; and
\* a cycle whose detection is 'unknown' ends without touching the title.
C38_TitleClearedWithState ==
    [][/\ Count(tasks', AtSetState) < Count(tasks, AtSetState)
            => /\ title' = TitleNone
               /\ Count(tasks', IsReconciled) > Count(tasks, IsReconciled)
       /\ Count(tasks, IsReconciled) > 0 /\ title' # title
            => Count(tasks', KeyWroteTitle) > Count(tasks, KeyWroteTitle)
       /\ (Count(tasks', AtDetect) < Count(tasks, AtDetect)
             /\ Count(tasks', AtSetState) = Count(tasks, AtSetState))
            => title' = title]_vars

\* onKeyDown showed 'Error' for a rejected shortcut and is still awaiting that
\* setTitle; meanwhile a cycle detected 'unmuted', showed it and cleared the
\* title
C38_Witness ==
    /\ title = TitleNone
    /\ button = 1
    /\ \E e \in Running : e.pc = "k_errtitle" /\ e.error = -1
    /\ \E e \in Running : e.pc = "u_cleartitle" /\ e.detected = "unmuted"


(***************************************************************************)
(* Two buttons of the same action.  A SingletonAction has one instance    *)
(* for every button of its action, so isUpdating and stateCheckInterval   *)
(* are shared, while each event carries the action (ev.action) of the     *)
(* button it is about.  No key is pressed.  button and title hold what    *)
(* the last display call wrote, to whichever button.                      *)
(***************************************************************************)
\* the finally block of updateState, then the caller's continuation:
\* onWillAppear calls startPeriodicStateCheck(ev.action)
twoUpdateStateReturn(e) ==
    /\ isUpdating' = FALSE
    /\ tasks' = End(e)
    /\ IF e.kind = "appear"
       THEN /\ startPeriodicStateCheck
            /\ timerAction' = e.action
       ELSE UNCHANGED <<stateCheckInterval, liveIntervals, timerAction>>

\* onWillAppear of button b
TwoWillAppear(b) ==
    /\ b \notin shown
    /\ shown' = shown \cup {b}
    /\ visible' = TRUE
    /\ IF isUpdating
       THEN /\ startPeriodicStateCheck
            /\ timerAction' = b
            /\ UNCHANGED <<isUpdating, tasks>>
       ELSE /\ CanStart
            /\ updateStateEnter([Idle EXCEPT !.action = b], "appear")
            /\ UNCHANGED <<stateCheckInterval, liveIntervals, timerAction>>
    /\ UNCHANGED <<zoom, pendingVerify, button, title, lastKnownState, phase,
                   monitor, config>>

\* onWillDisappear of button b: cleanup() takes no argument
TwoWillDisappear(b) ==
    /\ b \in shown
    /\ shown' = shown \ {b}
    /\ visible' = (shown' # {})
    /\ liveIntervals' = cleanup(liveIntervals, stateCheckInterval)
    /\ stateCheckInterval' = 0
    /\ timerAction' = 0
    /\ UNCHANGED <<zoom, isUpdating, pendingVerify, button, title, tasks,
                   lastKnownState, phase, monitor, config>>

\* the interval timer fires: its callback holds the action it was armed with
TwoTickFires ==
    /\ liveIntervals # {}
    /\ CanStart
    /\ tasks' = Start([Idle EXCEPT !.kind = "tick", !.pc = "t_running", !.nProbe = 1,
                                   !.action = timerAction])
    /\ UNCHANGED <<zoom, visible, isUpdating, stateCheckInterval, liveIntervals,
                   pendingVerify, button, title>>
    /\ UNCHANGED <<lastKnownState, phase, monitor, config, shown, timerAction>>

\* detectState returned
TwoUpdateDetect(e) ==
    /\ e.pc = "u_detect"
    /\ \E d \in detectState :
         IF d # "unknown"
         THEN /\ button' = setButtonState(d, button)
              /\ tasks' = Resume(e, [e EXCEPT !.pc = "u_setstate", !.detected = d])
              /\ UNCHANGED <<isUpdating, stateCheckInterval, liveIntervals, timerAction>>
         ELSE /\ button' = button
              /\ twoUpdateStateReturn(e)
    /\ UNCHANGED <<zoom, visible, pendingVerify, title>>
    /\ UNCHANGED <<lastKnownState, phase, monitor, config, shown>>

\* the last setTitle of updateState returned
TwoUpdateReturn(e) ==
    /\ e.pc \in {"u_cleartitle", "u_title"}
    /\ twoUpdateStateReturn(e)
    /\ UNCHANGED <<zoom, visible, pendingVerify, button, title>>
    /\ UNCHANGED <<lastKnownState, phase, monitor, config, shown>>

TwoNext ==
    \/ EnvChange
    \/ \E b \in Buttons : TwoWillAppear(b)
    \/ \E b \in Buttons : TwoWillDisappear(b)
    \/ TwoTickFires
    \/ \E e \in Running : UpdateRunning(e)
    \/ \E e \in Running : UpdateMeeting(e)
    \/ \E e \in Running : TwoUpdateDetect(e)
    \/ \E e \in Running : UpdateSetState(e)
    \/ \E e \in Running : TwoUpdateReturn(e)
    \/ \E e \in Running : TickRunning(e)
    \/ \E e \in Running : TickMeeting(e)

SpecTwo == Init /\ [][TwoNext]_vars


\* C39: when one of the shown buttons disappears while the periodic timer
\* refreshes a button that stays shown, that timer stays armed and goes on
\* refreshing the same button.
C39_OtherStillRefreshed ==
    [][(shown' # shown /\ shown' \subseteq shown /\ timerAction \in shown')
          => stateCheckInterval' # 0 /\ timerAction' = timerAction]_vars

====
